---- MODULE Spec2Model ----
(***************************************************************************)
(* pynger: a probe process (pynger.py) that measures a URL on a cadence    *)
(* and publishes one Metric per cycle, and an ingestion process            *)
(* (kafkapg.py) that writes the published metrics into the table metric.   *)
(*                                                                         *)
(* Python's None is the empty tuple <<>>, a present value v is <<v>>.      *)
(* Strings that the code takes apart are sequences of one-character        *)
(* strings, bytes and decoded text are sequences of integers.              *)
(***************************************************************************)
EXTENDS Integers, Sequences, FiniteSets, TLC

VARIABLES
    args,          \* the enriched configuration: delay, follow_redirect, search_in_content
    running,       \* state["running"], cleared by the signal handler
    pc,            \* position of the probe process in work()
    metric,        \* the Metric of the current cycle (None before the first cycle)
    sock,          \* the socket of time_connect: "none", "open", "closed"
    exc,           \* the exception in flight in the probe process, "none" if there is none
    requests,      \* HTTP requests issued by time_http in the current cycle
    data,          \* body returned by time_http
    content_type,  \* content-type header returned by time_http
    i,             \* counter of the delay loop
    published,     \* payload handed to the producer in the current cycle
    now,           \* wall clock, in ticks
    hist,          \* what the current cycle's responses were, and the previous record's timestamp
    wpc,           \* position of the ingestion process
    message,       \* the message the consumer delivered last
    wexc,          \* the exception in flight in the ingestion process
    tableExists,   \* the table metric exists
    committed,     \* rows of metric that are committed
    pending,       \* rows inserted by the open transaction, not yet committed
    txAborted,     \* the open transaction is in the aborted state
    connOpen,      \* the writer's store connection is open
    lastOp,        \* the store operation issued last for the message in hand: "none", "insert", "commit"
    firstSeen,     \* timestamp -> the fields of the first message inserted with it
    sinceCommit,   \* messages inserted since the last commit (-1: not counted)
    call,          \* a function of pynger.py called on its own, with its arguments
    ret            \* what that call returned or raised (None before it)

probeVars == <<args, running, pc, metric, sock, exc, requests, data, content_type, i,
               published, now, hist>>
writerVars == <<wpc, message, wexc, tableExists, committed, pending, txAborted, connOpen,
                lastOp, firstSeen, sinceCommit>>
fnVars == <<call, ret>>
vars == <<probeVars, writerVars, fnVars>>

None == <<>>
Some(v) == <<v>>
Min(a, b) == IF a < b THEN a ELSE b

(***************************************************************************)
(* Bounds of the model.                                                    *)
(***************************************************************************)
MaxDur == 1          \* measured durations are 1..MaxDur
MaxDelay == 2        \* configured delays are 0..MaxDelay
MaxNow == 2          \* the clock saturates here
TicksPerSec == 2     \* clock ticks in one second
MaxOffset == 31      \* bus offsets are 0..MaxOffset
MaxTs == 2           \* timestamps on the bus are 1..MaxTs

Durations == 1..MaxDur
Delays == 0..MaxDelay
Statuses == {200, 301, 404}

\* the cap on num_redirects
MaxRedirects == 20

(***************************************************************************)
(* Strings: split, strip and lower as Python's str methods compute them.   *)
(***************************************************************************)
Whitespace == {" ", "\t"}

RECURSIVE SplitAcc(_, _, _, _)
SplitAcc(s, sep, cur, acc) ==
    IF s = <<>> THEN Append(acc, cur)
    ELSE IF Head(s) = sep THEN SplitAcc(Tail(s), sep, <<>>, Append(acc, cur))
    ELSE SplitAcc(Tail(s), sep, Append(cur, Head(s)), acc)

\* str.split(sep): always at least one part
Split(s, sep) == SplitAcc(s, sep, <<>>, <<>>)

RECURSIVE LStrip(_)
LStrip(s) == IF s # <<>> /\ Head(s) \in Whitespace THEN LStrip(Tail(s)) ELSE s

RECURSIVE RStrip(_)
RStrip(s) ==
    IF s # <<>> /\ s[Len(s)] \in Whitespace THEN RStrip(SubSeq(s, 1, Len(s) - 1)) ELSE s

\* str.strip()
Strip(s) == RStrip(LStrip(s))

LowerChar(c) ==
    CASE c = "C" -> "c" [] c = "H" -> "h" [] c = "A" -> "a" [] c = "R" -> "r"
      [] c = "S" -> "s" [] c = "E" -> "e" [] c = "T" -> "t" [] c = "U" -> "u"
      [] c = "F" -> "f" [] c = "I" -> "i" [] c = "O" -> "o" [] c = "X" -> "x"
      [] OTHER -> c

\* str.lower()
Lower(s) == [k \in 1..Len(s) |-> LowerChar(s[k])]

sCharset == <<"c", "h", "a", "r", "s", "e", "t">>
sUTF8 == <<"U", "T", "F", "-", "8">>
sLatin1 == <<"I", "S", "O", "-", "8", "8", "5", "9", "-", "1">>

(***************************************************************************)
(* get_charset: the value of the first ';'-separated component whose key   *)
(* is 'charset'.  The result is [raised, value]: c[1] of a component       *)
(* without '=' raises IndexError.                                          *)
(***************************************************************************)
RECURSIVE FirstCharset(_)
FirstCharset(components) ==
    IF components = <<>> THEN [raised |-> "none", value |-> None]
    ELSE LET c == Head(components) IN
         IF Strip(Lower(c[1])) = sCharset
         THEN IF Len(c) >= 2
              THEN [raised |-> "none", value |-> Some(Strip(c[2]))]
              ELSE [raised |-> "IndexError", value |-> None]
         ELSE FirstCharset(Tail(components))

GetCharset(content_type_str) ==
    IF content_type_str = None \/ content_type_str[1] = <<>>
    THEN [raised |-> "none", value |-> None]
    ELSE LET parts == Split(content_type_str[1], ";")
             components == [k \in 1..Len(parts) |-> Split(Strip(parts[k]), "=")]
         IN  FirstCharset(components)

(***************************************************************************)
(* bytes.decode(charset).  The codec is looked up by its lower-cased name; *)
(* an unknown name raises LookupError.  UTF-8 is decoded for one- and      *)
(* two-byte forms, which is exact for bodies without bytes 0xE0..0xF4.     *)
(***************************************************************************)
CodecOf(charset) ==
    LET n == Lower(charset) IN
    IF n = Lower(sUTF8) THEN "utf_8"
    ELSE IF n = Lower(sLatin1) THEN "latin_1"
    ELSE "unknown"

RECURSIVE Utf8Decode(_, _)
Utf8Decode(bytes, acc) ==
    IF bytes = <<>> THEN [raised |-> "none", text |-> acc]
    ELSE LET b == Head(bytes) IN
         IF b < 128 THEN Utf8Decode(Tail(bytes), Append(acc, b))
         ELSE IF /\ b >= 194 /\ b <= 223 /\ Len(bytes) >= 2
                 /\ bytes[2] >= 128 /\ bytes[2] <= 191
              THEN Utf8Decode(Tail(Tail(bytes)), Append(acc, (b - 192) * 64 + (bytes[2] - 128)))
              ELSE [raised |-> "UnicodeDecodeError", text |-> <<>>]

Decode(bytes, charset) ==
    CASE CodecOf(charset) = "utf_8" -> Utf8Decode(bytes, <<>>)
      [] CodecOf(charset) = "latin_1" -> [raised |-> "none", text |-> bytes]
      [] OTHER -> [raised |-> "LookupError", text |-> <<>>]

(***************************************************************************)
(* re.search for patterns that are a sequence of literal characters, each  *)
(* optional or not ( a[b]?c is <<a, b?, c>> ).                             *)
(***************************************************************************)
RECURSIVE MatchAt(_, _, _, _)
MatchAt(regex, k, text, j) ==
    IF k > Len(regex) THEN TRUE
    ELSE \/ j <= Len(text) /\ text[j] = regex[k].ch /\ MatchAt(regex, k + 1, text, j + 1)
         \/ regex[k].opt /\ MatchAt(regex, k + 1, text, j)

Search(regex, text) == \E j \in 1..(Len(text) + 1) : MatchAt(regex, 1, text, j)

\* ValueError and its subclasses, which match_content catches
ValueErrors == {"UnicodeDecodeError"}

\* match_content: [raised, value]
MatchContent(regex, bytes, content_type_str) ==
    LET cs == GetCharset(content_type_str) IN
    IF cs.raised # "none" THEN [raised |-> cs.raised, value |-> FALSE]
    ELSE LET charset == IF cs.value = None \/ cs.value[1] = <<>> THEN sUTF8 ELSE cs.value[1]
             dec == Decode(bytes, charset)
         IN  IF dec.raised = "none" THEN [raised |-> "none", value |-> Search(regex, dec.text)]
             ELSE IF dec.raised \in ValueErrors THEN [raised |-> "none", value |-> FALSE]
             ELSE [raised |-> dec.raised, value |-> FALSE]

(***************************************************************************)
(* Inputs of the probe: responses and configurations.                      *)
(***************************************************************************)
bAC == <<97, 99>>            \* b"ac"
bAX == <<97, 120>>           \* b"ax"
bBad == <<97, 255, 99>>      \* not valid UTF-8
hUtf8 == <<"t", ";", " ">> \o sCharset \o <<"=">> \o sUTF8
hLatin1 == <<"C", "H", "A", "R", "S", "E", "T", " ", "=", " ">> \o sLatin1
hUnknown == sCharset \o <<"=", "x">>
hNoValue == sCharset

\* (body, content-type header) pairs a terminal response may carry
Contents ==
    { <<bAC, None>>, <<bAX, Some(hUtf8)>>, <<bBad, Some(hUtf8)>>, <<bBad, Some(hLatin1)>>,
      <<bAC, Some(hUnknown)>>, <<bAC, Some(hNoValue)>> }

\* a[b]?c
PatABC == <<[ch |-> 97, opt |-> FALSE], [ch |-> 98, opt |-> TRUE], [ch |-> 99, opt |-> FALSE]>>
Patterns == {None, Some(<<>>), Some(PatABC)}

Configs == [delay : Delays, follow_redirect : BOOLEAN, search_in_content : Patterns]

\* outcomes of sock.connect
TcpOutcomes == {"ok", "gaierror", "ConnectionRefusedError", "TimeoutError", "OSError"}

\* the exceptions time_connect handles
TcpHandled == {"gaierror", "ConnectionRefusedError", "TimeoutError"}

\* mutant: whatever is not None is true
Truthy_Given(x) == x # None

\* truth value of an optional string or pattern: None and the empty one are false
Truthy(x) == x # None /\ x[1] # <<>>

(***************************************************************************)
(* Metric                                                                  *)
(***************************************************************************)
Slots == {"pool", "tcp_exception", "tcp_rt", "http_rt", "initial_response_code",
          "num_redirects", "total_rt", "final_response_code", "content_found", "timestamp"}

\* Metric.__init__
MetricInit(ts) ==
    [pool |-> "PoolManager", tcp_exception |-> None, tcp_rt |-> 0, http_rt |-> 0,
     initial_response_code |-> None, num_redirects |-> 0, total_rt |-> 0,
     final_response_code |-> None, content_found |-> None, timestamp |-> ts]

\* mutant: the pool is a key like the others
Keys_All == Slots

\* Metric.keys
Keys == Slots \ {"pool"}

\* strftime(obj, "%Y-%m-%d %H:%M:%S%z"): whole seconds
FormatTs(t) == t \div TicksPerSec

\* str(exception)
StrOf(e) ==
    CASE e = "gaierror" -> "[Errno -2] Could not resolve host name"
      [] e = "ConnectionRefusedError" -> "Host refused connection on port"
      [] e = "TimeoutError" -> "Connection timed out"
      [] OTHER -> e

\* format_unsupported_types, applied by json.dumps to what it cannot serialise
FormatUnsupportedTypes(k, v) ==
    IF k = "timestamp" THEN FormatTs(v) ELSE Some(StrOf(v[1]))

\* the payload of produce: json.dumps(dict(metric), default=format_unsupported_types)
Payload(m) ==
    [k \in Keys |->
        IF k = "timestamp" \/ (k = "tcp_exception" /\ m[k] # None)
        THEN FormatUnsupportedTypes(k, m[k])
        ELSE m[k]]

M == metric[1]

\* what the model remembers of a cycle beside the Metric: the first and the last response
\* time_http received, their number and durations, how often initial_response_code was
\* written, and the timestamp on the wire of the record published before this cycle
HistInit(prevStamp) ==
    [firstStatus |-> None, firstDur |-> 0, lastStatus |-> None, sum |-> 0, redirects |-> 0,
     writes |-> 0, prevStamp |-> prevStamp]

(***************************************************************************)
(* The probe process: work() of pynger.py                                  *)
(***************************************************************************)
ProbeInit ==
    /\ args \in Configs
    /\ running = TRUE
    /\ pc = "cycle"
    /\ metric = None
    /\ sock = "none"
    /\ exc = "none"
    /\ requests = 0
    /\ data = None
    /\ content_type = None
    /\ i = 0
    /\ published = None
    /\ now = 0
    /\ hist = HistInit(None)

\* proper_exit: the handler of SIGINT and SIGTERM
ProperExit == running' = FALSE

Signal ==
    /\ pc \notin {"exited", "crashed"}
    /\ running
    /\ ProperExit
    /\ UNCHANGED <<args, pc, metric, sock, exc, requests, data, content_type, i, published,
                   now, hist>>
    /\ UNCHANGED <<writerVars, fnVars>>

\* metric = Metric()
NewMetric ==
    /\ pc = "cycle"
    /\ \E tick \in BOOLEAN :
          now' = IF tick THEN Min(now + 1, MaxNow) ELSE now
    /\ metric' = Some(MetricInit(now'))
    /\ sock' = "none"
    /\ requests' = 0
    /\ published' = None
    /\ hist' = HistInit(IF published # None THEN Some(published[1].timestamp)
                                             ELSE hist.prevStamp)
    /\ pc' = "time_connect"
    /\ UNCHANGED <<args, running, exc, data, content_type, i>>
    /\ UNCHANGED <<writerVars, fnVars>>

\* the fields time_connect writes for an outcome of sock.connect
ConnectResult(m, outcome, d) ==
    IF outcome = "ok" THEN [m EXCEPT !.tcp_rt = d]
    ELSE IF outcome \in TcpHandled THEN [m EXCEPT !.tcp_exception = Some(outcome)]
    ELSE m

\* time_connect up to its finally clause
SockConnect ==
    /\ pc = "time_connect"
    /\ \E outcome \in TcpOutcomes, d \in Durations :
          /\ metric' = Some(ConnectResult(M, outcome, d))
          /\ exc' = IF outcome = "ok" \/ outcome \in TcpHandled THEN "none" ELSE outcome
    /\ sock' = "open"
    /\ pc' = "tc_finally"
    /\ UNCHANGED <<args, running, requests, data, content_type, i, published, now, hist>>
    /\ UNCHANGED <<writerVars, fnVars>>

\* mutant: the HTTP phase runs whatever time_connect recorded
AfterConnect_NoTest(m) == "http_guard"

\* where work() goes on after time_connect returned
AfterConnect(m) == IF m.tcp_exception = None THEN "http_guard" ELSE "produce"

\* finally: sock.close(), then the return to work() or the propagation
TcFinally ==
    /\ pc = "tc_finally"
    /\ sock' = "closed"
    /\ pc' = IF exc = "none" THEN AfterConnect(M) ELSE "crashed"
    /\ UNCHANGED <<args, running, metric, exc, requests, data, content_type, i, published,
                   now, hist>>
    /\ UNCHANGED <<writerVars, fnVars>>

\* mutant: the guard lets one more hop through
TooManyRedirects_Late(m) == m.num_redirects > MaxRedirects + 1

\* the guard of time_http's loop
TooManyRedirects(m) == m.num_redirects > MaxRedirects

HttpGuard ==
    /\ pc = "http_guard"
    /\ IF TooManyRedirects(M)
       THEN exc' = "MaxRedirectError" /\ pc' = "crashed"
       ELSE exc' = exc /\ pc' = "http_request"
    /\ UNCHANGED <<args, running, metric, sock, requests, data, content_type, i, published,
                   now, hist>>
    /\ UNCHANGED <<writerVars, fnVars>>

\* http_pool.request raises (retries=False): nothing is written
HttpError ==
    /\ pc = "http_request"
    /\ requests' = requests + 1
    /\ exc' = "HTTPError"
    /\ pc' = "crashed"
    /\ UNCHANGED <<args, running, metric, sock, data, content_type, i, published, now, hist>>
    /\ UNCHANGED <<writerVars, fnVars>>

\* mutant: 3xx is followed whatever the policy
IsRedirect_Always(follow_redirect, status) == 300 <= status /\ status < 400

IsRedirect(follow_redirect, status) == follow_redirect /\ 300 <= status /\ status < 400

\* mutant: every hop counts as the first
FirstHop_Always(m) == TRUE

\* if not self.initial_response_code:
FirstHop(m) == m.initial_response_code = None \/ m.initial_response_code[1] = 0

\* the writes of one hop before the redirect test
Hop(m, status, time_delta) ==
    LET m1 == [m EXCEPT !.total_rt = @ + time_delta, !.final_response_code = Some(status)]
    IN  IF FirstHop(m1)
        THEN [m1 EXCEPT !.http_rt = time_delta, !.initial_response_code = Some(status)]
        ELSE m1

\* the response of one hop, as the model remembers it
Received(h, m, status, time_delta) ==
    [h EXCEPT !.firstStatus = IF @ = None THEN Some(status) ELSE @,
              !.firstDur = IF h.firstStatus = None THEN time_delta ELSE @,
              !.lastStatus = Some(status),
              !.sum = @ + time_delta,
              !.redirects = IF 300 <= status /\ status < 400 THEN @ + 1 ELSE @,
              !.writes = IF FirstHop(m) THEN @ + 1 ELSE @]

\* one pass of time_http's loop body: a response arrives
HttpResponse ==
    /\ pc = "http_request"
    /\ requests' = requests + 1
    /\ \E status \in Statuses, time_delta \in Durations, location \in BOOLEAN, c \in Contents :
          LET m1 == Hop(M, status, time_delta) IN
          /\ hist' = Received(hist, M, status, time_delta)
          /\ IF IsRedirect(args.follow_redirect, status)
             THEN IF location
                  THEN /\ metric' = Some([m1 EXCEPT !.num_redirects = @ + 1])
                       /\ pc' = "http_guard"
                       /\ UNCHANGED <<exc, data, content_type>>
                  ELSE /\ metric' = Some(m1)
                       /\ exc' = "KeyError"
                       /\ pc' = "crashed"
                       /\ UNCHANGED <<data, content_type>>
             ELSE /\ metric' = Some(m1)
                  /\ data' = Some(c[1])
                  /\ content_type' = c[2]
                  /\ pc' = "match"
                  /\ exc' = exc
    /\ UNCHANGED <<args, running, sock, i, published, now>>
    /\ UNCHANGED <<writerVars, fnVars>>

\* match_content on every pattern and content of the model, computed once
MatchResults ==
    [p \in {q[1] : q \in Patterns \ {None}}, c \in Contents |-> MatchContent(p, c[1], c[2])]

\* if args.search_in_content: metric.content_found = match_content(...)
Match ==
    /\ pc = "match"
    /\ IF Truthy(args.search_in_content)
       THEN LET r == MatchResults[args.search_in_content[1], <<data[1], content_type>>] IN
            IF r.raised = "none"
            THEN /\ metric' = Some([M EXCEPT !.content_found = Some(r.value)])
                 /\ pc' = "produce"
                 /\ exc' = exc
            ELSE /\ exc' = r.raised
                 /\ pc' = "crashed"
                 /\ metric' = metric
       ELSE /\ pc' = "produce"
            /\ UNCHANGED <<metric, exc>>
    /\ data' = None
    /\ content_type' = None
    /\ UNCHANGED <<args, running, sock, requests, i, published, now, hist>>
    /\ UNCHANGED <<writerVars, fnVars>>

\* produce(producer, metric)
Produce ==
    /\ pc = "produce"
    /\ published' = Some(Payload(M))
    /\ i' = 0
    /\ pc' = "delay"
    /\ UNCHANGED <<args, running, metric, sock, exc, requests, data, content_type, now, hist>>
    /\ UNCHANGED <<writerVars, fnVars>>

\* for i in range(args.delay): the flag is clear, exit()
DelayExit ==
    /\ pc = "delay"
    /\ i < args.delay
    /\ ~running
    /\ pc' = "exited"
    /\ UNCHANGED <<args, running, metric, sock, exc, requests, data, content_type, i,
                   published, now, hist>>
    /\ UNCHANGED <<writerVars, fnVars>>

\* for i in range(args.delay): time.sleep(1)
DelaySleep ==
    /\ pc = "delay"
    /\ i < args.delay
    /\ running
    /\ i' = i + 1
    /\ now' = Min(now + TicksPerSec, MaxNow)
    /\ UNCHANGED <<args, running, pc, metric, sock, exc, requests, data, content_type,
                   published, hist>>
    /\ UNCHANGED <<writerVars, fnVars>>

\* the range is exhausted: the next pass of while True
DelayDone ==
    /\ pc = "delay"
    /\ i >= args.delay
    /\ pc' = "cycle"
    /\ UNCHANGED <<args, running, metric, sock, exc, requests, data, content_type, i,
                   published, now, hist>>
    /\ UNCHANGED <<writerVars, fnVars>>

ProbeStep ==
    \/ NewMetric
    \/ SockConnect
    \/ TcFinally
    \/ HttpGuard
    \/ HttpError
    \/ HttpResponse
    \/ Match
    \/ Produce
    \/ DelayExit
    \/ DelaySleep
    \/ DelayDone

ProbeNext ==
    \/ ProbeStep
    \/ Signal

(***************************************************************************)
(* The ingestion process: work() and start_postgresql_writer of kafkapg.py *)
(***************************************************************************)
Offsets == 0..MaxOffset
Timestamps == 1..MaxTs

\* two payloads a probe can publish with timestamp ts
PayloadA(ts) ==
    [Payload(MetricInit(0)) EXCEPT !.timestamp = ts, !.tcp_exception = Some(StrOf("TimeoutError"))]
PayloadB(ts) ==
    [Payload(MetricInit(0)) EXCEPT !.timestamp = ts, !.tcp_rt = 1, !.http_rt = 1, !.total_rt = 1,
                                   !.initial_response_code = Some(200),
                                   !.final_response_code = Some(200)]

\* a payload without the key timestamp
NoTimestamp(d) == [k \in (DOMAIN d) \ {"timestamp"} |-> d[k]]

\* message.value: None stands for bytes that are no JSON document
Values ==
    {Some(PayloadA(ts)) : ts \in Timestamps} \cup {Some(PayloadB(ts)) : ts \in Timestamps}
    \cup {None, Some(NoTimestamp(PayloadA(1))), Some([PayloadB(1) EXCEPT !.num_redirects = 40000])}

\* what the consumer yields; isNone marks a None message
NoMessage == [isNone |-> TRUE, offset |-> 0, value |-> None]
Messages == {NoMessage} \cup [isNone : {FALSE}, offset : Offsets, value : Values]

\* the columns of metric, in the order of the insert's parameters
Columns ==
    << <<"created_at", "timestamp">>, <<"tcp_exception", "tcp_exception">>,
       <<"tcp_rt", "tcp_rt">>, <<"http_rt", "http_rt">>,
       <<"initial_rc", "initial_response_code">>, <<"num_redirects", "num_redirects">>,
       <<"total_rt", "total_rt">>, <<"final_rc", "final_response_code">>,
       <<"content_found", "content_found">> >>

\* json.loads(message.value.decode('utf-8')) and the nine metric[...] lookups
DecodeMessage(value) ==
    IF value = None THEN [raised |-> "JSONDecodeError", row |-> None]
    ELSE IF \E k \in 1..Len(Columns) : Columns[k][2] \notin DOMAIN value[1]
    THEN [raised |-> "KeyError", row |-> None]
    ELSE [raised |-> "none",
          row |-> Some([c \in {Columns[k][1] : k \in 1..Len(Columns)} |->
                          LET k == CHOOSE k \in 1..Len(Columns) : Columns[k][1] = c
                          IN  value[1][Columns[k][2]]])]

\* the store rejects a value that does not fit its column (SMALLINT)
Fits(row) == row.num_redirects >= -32768 /\ row.num_redirects <= 32767

\* rows the open transaction sees
View == committed \cup pending

\* mutant: a plain INSERT, without ON CONFLICT
InsertMetric_Plain(view, row) == {row}

\* INSERT ... ON CONFLICT (created_at) DO NOTHING, on the rows the transaction sees
InsertMetric(view, row) ==
    IF \E r \in view : r.created_at = row.created_at THEN {} ELSE {row}

RECURSIVE BitAnd(_, _)
BitAnd(a, b) ==
    IF a = 0 \/ b = 0 THEN 0
    ELSE (IF a % 2 = 1 /\ b % 2 = 1 THEN 1 ELSE 0) + 2 * BitAnd(a \div 2, b \div 2)

\* mutant: the commit is due on offsets whose low bits are clear
CommitDue_Zero(offset) == BitAnd(offset, 15) = 0

\* "Commit once every 16 messages"
CommitEvery == 16

\* message.offset & 0xF == 0xF
CommitDue(offset) == BitAnd(offset, 15) = 15

WriterInit ==
    /\ wpc = "ensure_table"
    /\ message = NoMessage
    /\ wexc = "none"
    /\ tableExists \in BOOLEAN
    /\ committed = {}
    /\ pending = {}
    /\ txAborted = FALSE
    /\ connOpen = FALSE
    /\ lastOp = "none"
    /\ firstSeen = [ts \in Timestamps |-> None]

\* ensure_table: CREATE TABLE IF NOT EXISTS, committed by its own connection
EnsureTable ==
    /\ wpc = "ensure_table"
    /\ tableExists' = TRUE
    /\ wpc' = "connect"
    /\ UNCHANGED <<message, wexc, committed, pending, txAborted, connOpen, lastOp, firstSeen,
                   sinceCommit>>
    /\ UNCHANGED <<probeVars, fnVars>>

\* with connect(pg_config) as (conn, curs): and the PREPARE
Connect ==
    /\ wpc = "connect"
    /\ connOpen' = TRUE
    /\ wpc' = "loop"
    /\ UNCHANGED <<message, wexc, tableExists, committed, pending, txAborted, lastOp,
                   firstSeen, sinceCommit>>
    /\ UNCHANGED <<probeVars, fnVars>>

\* for message in consumer: the consumer yields a message
Deliver ==
    /\ wpc = "loop"
    /\ \E m \in Messages : message' = m
    /\ lastOp' = "none"
    /\ wpc' = "got"
    /\ UNCHANGED <<wexc, tableExists, committed, pending, txAborted, connOpen, firstSeen,
                   sinceCommit>>
    /\ UNCHANGED <<probeVars, fnVars>>

\* the consumer's iteration ends
EndOfStream ==
    /\ wpc = "loop"
    /\ wpc' = "finally"
    /\ UNCHANGED <<message, wexc, tableExists, committed, pending, txAborted, connOpen, lastOp,
                   firstSeen, sinceCommit>>
    /\ UNCHANGED <<probeVars, fnVars>>

\* if message is not None: is false
SkipNone ==
    /\ wpc = "got"
    /\ message.isNone
    /\ wpc' = "loop"
    /\ UNCHANGED <<message, wexc, tableExists, committed, pending, txAborted, connOpen, lastOp,
                   firstSeen, sinceCommit>>
    /\ UNCHANGED <<probeVars, fnVars>>

\* mutant: the error is swallowed and the loop goes on
OnError_Skip(e) == [wpc |-> "loop", wexc |-> "none"]

\* where the loop goes when decoding or inserting raised
OnError(e) == [wpc |-> "finally", wexc |-> e]

\* the count of inserted messages after one more, and after a commit; it stops at
\* CommitEvery + 1 and stays -1 where the messages are not counted
Counted(n) == IF n < 0 THEN n ELSE Min(n + 1, CommitEvery + 1)
Cleared(n) == IF n < 0 THEN n ELSE 0

\* the body of the loop up to the commit test: decode, then EXECUTE insert_metric
Insert ==
    /\ wpc = "got"
    /\ ~message.isNone
    /\ LET d == DecodeMessage(message.value) IN
       IF d.raised # "none"
       THEN /\ wpc' = OnError(d.raised).wpc
            /\ wexc' = OnError(d.raised).wexc
            /\ UNCHANGED <<pending, txAborted, lastOp, firstSeen, sinceCommit>>
       ELSE IF ~Fits(d.row[1])
       THEN /\ wpc' = OnError("DataError").wpc
            /\ wexc' = OnError("DataError").wexc
            /\ txAborted' = TRUE
            /\ UNCHANGED <<pending, lastOp, firstSeen, sinceCommit>>
       ELSE /\ pending' = pending \cup InsertMetric(View, d.row[1])
            /\ lastOp' = "insert"
            /\ sinceCommit' = Counted(sinceCommit)
            /\ firstSeen' = IF firstSeen[d.row[1].created_at] = None
                            THEN [firstSeen EXCEPT ![d.row[1].created_at] = d.row]
                            ELSE firstSeen
            /\ wpc' = "inserted"
            /\ UNCHANGED <<wexc, txAborted>>
    /\ UNCHANGED <<message, tableExists, committed, connOpen>>
    /\ UNCHANGED <<probeVars, fnVars>>

\* conn.commit(): an aborted transaction is rolled back instead
Commit ==
    /\ committed' = IF txAborted THEN committed ELSE committed \cup pending
    /\ pending' = {}
    /\ txAborted' = FALSE

\* if message.offset & 0xF == 0xF: conn.commit()
CommitCheck ==
    /\ wpc = "inserted"
    /\ IF CommitDue(message.offset)
       THEN Commit /\ lastOp' = "commit" /\ sinceCommit' = Cleared(sinceCommit)
       ELSE UNCHANGED <<committed, pending, txAborted, lastOp, sinceCommit>>
    /\ wpc' = "loop"
    /\ UNCHANGED <<message, wexc, tableExists, connOpen, firstSeen>>
    /\ UNCHANGED <<probeVars, fnVars>>

\* proper_exit: exit() raises SystemExit in the main thread
WriterSignal ==
    /\ wpc \in {"ensure_table", "connect", "loop", "got", "inserted"}
    /\ wexc' = "SystemExit"
    /\ wpc' = IF connOpen THEN "finally" ELSE "stopped"
    /\ UNCHANGED <<message, tableExists, committed, pending, txAborted, connOpen, lastOp,
                   firstSeen, sinceCommit>>
    /\ UNCHANGED <<probeVars, fnVars>>

\* mutant: the connection is closed without a commit
FinallyCommit_Skip == UNCHANGED <<committed, pending, txAborted>>

\* what connect's finally clause does to the transaction before closing
FinallyCommit == Commit

\* finally: conn.commit()
Finally ==
    /\ wpc = "finally"
    /\ FinallyCommit
    /\ sinceCommit' = Cleared(sinceCommit)
    /\ wpc' = "close"
    /\ UNCHANGED <<message, wexc, tableExists, connOpen, lastOp, firstSeen>>
    /\ UNCHANGED <<probeVars, fnVars>>

\* finally: cursor.close(); conn.close() -- what is not committed is lost
Close ==
    /\ wpc = "close"
    /\ connOpen' = FALSE
    /\ pending' = {}
    /\ wpc' = "stopped"
    /\ UNCHANGED <<message, wexc, tableExists, committed, txAborted, lastOp, firstSeen,
                   sinceCommit>>
    /\ UNCHANGED <<probeVars, fnVars>>

WriterStep ==
    \/ EnsureTable
    \/ Connect
    \/ Deliver
    \/ EndOfStream
    \/ SkipNone
    \/ Insert
    \/ CommitCheck
    \/ Finally
    \/ Close

WriterNext ==
    \/ WriterStep
    \/ WriterSignal

(***************************************************************************)
(* Specifications: the two processes run on different hosts and share only *)
(* the bus; each is checked on its own.                                    *)
(***************************************************************************)
\* the probe before work() is called, with some configuration
ProbeIdle ==
    /\ ProbeInit
    /\ args = [delay |-> 0, follow_redirect |-> FALSE, search_in_content |-> None]

\* the ingestion process before work() is called
WriterIdle ==
    /\ WriterInit
    /\ tableExists = FALSE
    /\ sinceCommit = -1

\* no function of pynger.py is called on its own
NoCall == [fn |-> "none", args |-> <<>>]
FnIdle == call = NoCall /\ ret = None

ProbeStart == ProbeInit /\ WriterIdle /\ FnIdle

WriterStart == WriterInit /\ sinceCommit = -1 /\ ProbeIdle /\ FnIdle

\* the ingestion process with its inserted messages counted
WriterCountStart == WriterInit /\ sinceCommit = 0 /\ ProbeIdle /\ FnIdle

ProbeSpec == ProbeStart /\ [][ProbeNext]_vars

\* the interpreter keeps executing the probe's statements until it exits
ProbeFairSpec == ProbeSpec /\ WF_vars(ProbeStep)

WriterSpec == WriterStart /\ [][WriterNext]_vars

WriterCountSpec == WriterCountStart /\ [][WriterNext]_vars

(***************************************************************************)
(* enrich_args: the defaults, updated with the config file's "operation"   *)
(* section, updated with the CLI arguments that are not None; the decoded  *)
(* config file is stored under "config" last.  The result is [raised,      *)
(* value]: config["operation"] of a file without that section raises       *)
(* KeyError.                                                               *)
(***************************************************************************)
DefaultDelay == 60

\* default_config
DefaultConfig == [delay |-> DefaultDelay, follow_redirect |-> FALSE]

\* dict.update
Update(d, e) == [k \in (DOMAIN d) \cup (DOMAIN e) |-> IF k \in DOMAIN e THEN e[k] ELSE d[k]]

\* dict((key, item) for key, item in args.__dict__.items() if item is not None)
NonEmptyArgs(a) == [k \in {j \in DOMAIN a : a[j] # None} |-> a[k][1]]

\* mutant: the config file is applied over the CLI arguments
EnrichArgs_FileLast(a, config) ==
    IF "operation" \notin DOMAIN config THEN [raised |-> "KeyError", value |-> None]
    ELSE [raised |-> "none",
          value |-> Some(Update(Update(Update(DefaultConfig, NonEmptyArgs(a)), config.operation),
                                [config |-> config]))]

EnrichArgs(a, config) ==
    IF "operation" \notin DOMAIN config THEN [raised |-> "KeyError", value |-> None]
    ELSE [raised |-> "none",
          value |-> Some(Update(Update(Update(DefaultConfig, config.operation), NonEmptyArgs(a)),
                                [config |-> config]))]

(***************************************************************************)
(* The pure functions of pynger.py, each called once on arguments drawn    *)
(* from the sets below.                                                    *)
(***************************************************************************)
hPlain == <<"t">>                                      \* no parameter
hLeading == <<";">> \o sCharset \o <<"=">> \o sLatin1    \* ";charset=ISO-8859-1"
hEmptyValue == sCharset \o <<"=">>                     \* "charset="
hTwo == hUnknown \o <<";">> \o hLatin1                  \* two charset parameters
hSpaced == <<"t", ";", "x", "=", "1", ";", " ">> \o sCharset \o <<" ", "=", "\t">> \o sUTF8 \o <<" ">>

Headers ==
    {None, Some(<<>>), Some(hUtf8), Some(hLatin1), Some(hUnknown), Some(hNoValue), Some(hPlain),
     Some(hLeading), Some(hEmptyValue), Some(hTwo), Some(hSpaced)}

bABC == <<98, 97, 98, 99>>    \* b"babc"
Bodies == {bAC, bAX, bBad, bABC, <<>>}

\* the namespace parse_args returns: an option that was not given is None
CliArgs ==
    [url : {None, Some("http://u")}, follow_redirect : {None, Some(TRUE)},
     search_in_content : {None}, delay : {None, Some(5)}, config : {Some("file")}]

\* "operation" sections: every part of one that sets each key
OperationFull == [delay |-> 30, follow_redirect |-> TRUE, foo |-> "bar"]
Operations == {[k \in S |-> OperationFull[k]] : S \in SUBSET (DOMAIN OperationFull)}

\* decoded config files, the last one without an "operation" section
ConfigFiles == {[kafka |-> "hosts", operation |-> op] : op \in Operations} \cup {[kafka |-> "hosts"]}

FnInit ==
    /\ ret = None
    /\ \/ \E h \in Headers : call = [fn |-> "get_charset", args |-> <<h>>]
       \/ \E p \in Patterns \ {None}, b \in Bodies, h \in Headers :
             call = [fn |-> "match_content", args |-> <<p[1], b, h>>]
       \/ \E a \in CliArgs, c \in ConfigFiles :
             call = [fn |-> "enrich_args", args |-> <<a, c>>]

CallGetCharset ==
    /\ call.fn = "get_charset"
    /\ ret = None
    /\ ret' = Some(GetCharset(call.args[1]))
    /\ UNCHANGED <<call, probeVars, writerVars>>

CallMatchContent ==
    /\ call.fn = "match_content"
    /\ ret = None
    /\ ret' = Some(MatchContent(call.args[1], call.args[2], call.args[3]))
    /\ UNCHANGED <<call, probeVars, writerVars>>

CallEnrichArgs ==
    /\ call.fn = "enrich_args"
    /\ ret = None
    /\ ret' = Some(EnrichArgs(call.args[1], call.args[2]))
    /\ UNCHANGED <<call, probeVars, writerVars>>

FnNext ==
    \/ CallGetCharset
    \/ CallMatchContent
    \/ CallEnrichArgs

FnStart == FnInit /\ ProbeIdle /\ WriterIdle

FnSpec == FnStart /\ [][FnNext]_vars

(***************************************************************************)
(* Properties of the probe                                                 *)
(***************************************************************************)

\* C1 as stated: num_redirects never exceeds 20, the 21st redirect is not counted.
C1_AtMostTwenty == metric # None => M.num_redirects <= 20

\* C1, amended: num_redirects never exceeds 21 and time_http never issues more than
\* 21 requests; MaxRedirectError is raised exactly when the 21st redirect has been
\* counted, and that redirect is not followed.
C1_RedirectCap ==
    metric # None =>
        /\ M.num_redirects <= MaxRedirects + 1
        /\ requests <= MaxRedirects + 1
        /\ M.num_redirects <= requests
        /\ (exc = "MaxRedirectError") <=>
              (pc = "crashed" /\ M.num_redirects = MaxRedirects + 1
                              /\ requests = MaxRedirects + 1)

C1_Witness ==
    pc = "crashed" /\ exc = "MaxRedirectError" /\ M.num_redirects = 21 /\ requests = 21

\* C2: no exception escapes a cycle for an outcome of the HTTP phase or of the content
\* match (a redirect without Location, the redirect cap, a body or charset that cannot
\* be decoded): the process never ends with one of them.
C2_NoExceptionEscapes ==
    ~(pc = "crashed" /\ exc \in {"KeyError", "MaxRedirectError", "LookupError", "IndexError"})

\* C3: when tcp_exception is set no HTTP request is issued in the cycle and the
\* published Metric carries the defaults of every HTTP field; a published Metric
\* with an HTTP field populated has no tcp_exception.
C3_TcpFailureSkipsHttp ==
    /\ (metric # None /\ M.tcp_exception # None) => requests = 0
    /\ published # None =>
          LET p == published[1]
              httpDefaults ==
                  /\ p.http_rt = 0 /\ p.total_rt = 0 /\ p.num_redirects = 0
                  /\ p.initial_response_code = None /\ p.final_response_code = None
                  /\ p.content_found = None
          IN  /\ p.tcp_exception # None => httpDefaults
              /\ ~httpDefaults => p.tcp_exception = None

C3_Witness ==
    /\ published # None
    /\ published[1].tcp_exception = Some(StrOf("ConnectionRefusedError"))
    /\ requests = 0

\* C4: time_connect never raises: whatever sock.connect does, no exception is in
\* flight when the socket has been closed.
C4_NeverRaises == sock = "closed" => exc # "OSError"

\* C10: with num_redirects = 0 after a hop the two response codes are equal; with
\* follow_redirect false num_redirects stays 0 and a time_http that received a
\* response issued exactly one request, for every status.
C10_NoRedirectsFollowed ==
    metric # None =>
        /\ (M.final_response_code # None /\ M.num_redirects = 0)
              => M.final_response_code = M.initial_response_code
        /\ ~args.follow_redirect =>
              /\ M.num_redirects = 0
              /\ requests <= 1
              /\ M.final_response_code # None => requests = 1

C10_Witness ==
    /\ ~args.follow_redirect
    /\ pc = "produce"
    /\ M.final_response_code = Some(301)
    /\ M.initial_response_code = Some(301)
    /\ requests = 1

\* C9: once the running flag is cleared the probe process eventually stops running
\* cycles, for every delay.
C9_EventuallyExits == (~running) ~> (pc \in {"exited", "crashed"})

(***************************************************************************)
(* Properties of the ingestion process                                     *)
(***************************************************************************)
\* exceptions that decoding or inserting a message raises
WriterErrors == {"JSONDecodeError", "KeyError", "DataError"}

\* the row a well-formed payload stands for
RowOf(d) ==
    [created_at |-> d.timestamp, tcp_exception |-> d.tcp_exception, tcp_rt |-> d.tcp_rt,
     http_rt |-> d.http_rt, initial_rc |-> d.initial_response_code,
     num_redirects |-> d.num_redirects, total_rt |-> d.total_rt,
     final_rc |-> d.final_response_code, content_found |-> d.content_found]

\* C5: as long as no insert has failed, the table holds exactly one row for every
\* timestamp inserted, with the fields of the first message that carried it, and none
\* for the others; a duplicate raises nothing.
C5_OneRowPerTimestamp ==
    wexc # "DataError" =>
        /\ \A ts \in Timestamps :
              {r \in View : r.created_at = ts} =
                  (IF firstSeen[ts] = None THEN {} ELSE {firstSeen[ts][1]})
        /\ wpc = "inserted" => wexc = "none"

\* a message was inserted whose timestamp is in the table with other fields
C5_Witness ==
    /\ wpc = "inserted"
    /\ firstSeen[message.value[1].timestamp] # Some(RowOf(message.value[1]))
    /\ Cardinality(View) = 1

\* C6: back at the head of the loop, a commit was issued for the message just handled
\* exactly when its offset has the low four bits set; otherwise only the insert was
\* issued, and for a None message nothing.
C6_CommitCadence ==
    (wpc = "loop" /\ connOpen) =>
        IF message.isNone THEN lastOp = "none"
        ELSE IF message.offset % 16 = 15 THEN lastOp = "commit" /\ pending = {}
        ELSE lastOp = "insert"

C6_Witness == wpc = "loop" /\ lastOp = "commit" /\ message.offset = 31

\* C7: after a clean shutdown (end of the iteration or SystemExit from the signal
\* handler) nothing is pending when the connection is closed, and every timestamp
\* inserted has its row committed.
C7_ShutdownCommits ==
    (wpc \in {"close", "stopped"} /\ wexc \in {"none", "SystemExit"}) =>
        /\ pending = {}
        /\ \A ts \in Timestamps : firstSeen[ts] # None => firstSeen[ts][1] \in committed

C7_Witness ==
    /\ wpc = "stopped"
    /\ wexc = "SystemExit"
    /\ ~connOpen
    /\ lastOp = "insert"
    /\ message.offset % 16 # 15
    /\ Cardinality(committed) = 2

\* a message whose decoding or insert fails
Failing(m) ==
    /\ ~m.isNone
    /\ \/ m.value = None
       \/ "timestamp" \notin DOMAIN m.value[1]
       \/ m.value[1].num_redirects > 32767

\* C8: a message that fails is not skipped, the step that handles it leaves the loop
\* with an exception; and with that exception in flight no message is delivered,
\* decoded or inserted any more.
C8_ErrorTerminates ==
    [][ /\ (wpc = "got" /\ Failing(message)) => (wpc' = "finally" /\ wexc' # "none")
        /\ wexc \in WriterErrors =>
              /\ wexc' = wexc
              /\ wpc' \in {"close", "stopped"}
              /\ message' = message
              /\ lastOp' = lastOp
              /\ firstSeen' = firstSeen
              /\ pending' \subseteq pending ]_vars

C8_Witness == wpc = "stopped" /\ wexc = "DataError" /\ firstSeen[1] # None

(***************************************************************************)
(* Properties of time_http's accounting                                    *)
(***************************************************************************)

\* time_http has returned in the current cycle
Returned ==
    /\ metric # None
    /\ hist.lastStatus # None
    /\ pc \in {"match", "produce", "delay", "cycle", "exited"}

CharsetFor(h) ==
    LET cs == GetCharset(h) IN
    IF cs.raised # "none" THEN None
    ELSE IF cs.value = None \/ cs.value[1] = <<>> THEN Some(sUTF8) ELSE cs.value
Decodable(b, h) == CharsetFor(h) # None /\ Decode(b, CharsetFor(h)[1]).raised = "none"

\* C12: match_content never raises; it returns false for a body that cannot be decoded
\* (invalid in its charset, unknown charset, charset parameter without a value) and
\* otherwise whether the pattern occurs in the decoded text.
C12_NoDecodeErrorEscapes ==
    (call.fn = "match_content" /\ ret # None) =>
        LET regex == call.args[1]
            b == call.args[2]
            h == call.args[3]
        IN  /\ ret[1].raised = "none"
            /\ ret[1].value = IF Decodable(b, h)
                              THEN Search(regex, Decode(b, CharsetFor(h)[1]).text)
                              ELSE FALSE

\* the ';'-separated parameters of a header, the key and the value of one
ParamsOf(h) == Split(h, ";")
EqAt(p) == IF \E k \in 1..Len(p) : p[k] = "="
           THEN CHOOSE k \in 1..Len(p) : p[k] = "=" /\ \A j \in 1..(k - 1) : p[j] # "="
           ELSE Len(p) + 1
KeyOf(p) == Strip(SubSeq(p, 1, EqAt(p) - 1))
ValueOf(p) == Strip(SubSeq(p, EqAt(p) + 1, Len(p)))
CharsetParams(h) == {k \in 1..Len(ParamsOf(h)) : Lower(KeyOf(ParamsOf(h)[k])) = sCharset}
CharsetValue(h) ==
    IF h = None \/ CharsetParams(h[1]) = {} THEN None
    ELSE LET k == CHOOSE k \in CharsetParams(h[1]) : \A j \in CharsetParams(h[1]) : k <= j
         IN  Some(ValueOf(ParamsOf(h[1])[k]))

\* C13: for every content-type header get_charset returns the trimmed value of the
\* parameter whose trimmed key is 'charset' in any case, and nothing when there is no
\* such parameter or no header.
C13_ReturnsCharsetValue ==
    (call.fn = "get_charset" /\ ret # None) =>
        /\ ret[1].raised = "none"
        /\ ret[1].value = CharsetValue(call.args[1])

\* the option keys of a call of enrich_args: whatever a source names, except "config"
OptionKeys(a, config) ==
    ((DOMAIN a) \cup (DOMAIN config.operation) \cup (DOMAIN DefaultConfig)) \ {"config"}

\* C17: in the result of enrich_args every option has the CLI argument's value if that is
\* not None, else the value of the config file's "operation" section if it has one, else
\* the built-in default (delay 60, follow_redirect false), and is absent when no source
\* has it; the attribute config is the decoded config file.
C17_ThreeLayers ==
    (call.fn = "enrich_args" /\ ret # None /\ ret[1].raised = "none") =>
        LET a == call.args[1]
            config == call.args[2]
            r == ret[1].value[1]
        IN  /\ \A k \in OptionKeys(a, config) :
                  IF k \in DOMAIN a /\ a[k] # None THEN k \in DOMAIN r /\ r[k] = a[k][1]
                  ELSE IF k \in DOMAIN config.operation
                  THEN k \in DOMAIN r /\ r[k] = config.operation[k]
                  ELSE IF k \in DOMAIN DefaultConfig
                  THEN k \in DOMAIN r /\ r[k] = DefaultConfig[k]
                  ELSE k \notin DOMAIN r
            /\ r.config = config
            /\ DefaultConfig.delay = 60 /\ DefaultConfig.follow_redirect = FALSE

\* the CLI gives a delay, the file another and a key of its own: the CLI's delay wins
C17_Witness ==
    /\ call.fn = "enrich_args"
    /\ ret # None
    /\ ret[1].raised = "none"
    /\ call.args[1].delay = Some(5)
    /\ call.args[1].follow_redirect = None
    /\ DOMAIN call.args[2].operation = {"delay", "foo"}
    /\ ret[1].value[1].delay = 5
    /\ ret[1].value[1].follow_redirect = FALSE
    /\ ret[1].value[1].foo = "bar"

(***************************************************************************)
(* Properties of the published records                                     *)
(***************************************************************************)

\* the nine fields of the wire format
NineFields ==
    {"tcp_exception", "tcp_rt", "http_rt", "initial_response_code", "num_redirects",
     "total_rt", "final_response_code", "content_found", "timestamp"}

\* json.loads of the payload, and strptime of its timestamp: the instant of a whole second
ParseTs(w) == w * TicksPerSec

\* the fields other than the timestamp decode to the Metric's values (an exception to
\* its message)
OthersRecovered(p, m) ==
    /\ DOMAIN p = NineFields
    /\ \A k \in NineFields \ {"timestamp", "tcp_exception"} : p[k] = m[k]
    /\ p.tcp_exception = IF m.tcp_exception = None THEN None
                         ELSE Some(StrOf(m.tcp_exception[1]))

\* C14 as stated: the payload has exactly the nine fields and decoding it recovers each
\* value exactly, the timestamp included.
C14_RoundTripExact ==
    published # None =>
        /\ OthersRecovered(published[1], M)
        /\ ParseTs(published[1].timestamp) = M.timestamp

\* C14, amended: the payload has exactly the nine fields, never the pool; decoding it
\* recovers every field but the timestamp exactly, and the timestamp cut to its whole
\* second.
C14_RoundTripToTheSecond ==
    published # None =>
        /\ OthersRecovered(published[1], M)
        /\ ParseTs(published[1].timestamp) = M.timestamp - (M.timestamp % TicksPerSec)

\* a record whose timestamp is not at a whole second, with every kind of field set
C14_Witness ==
    /\ published # None
    /\ M.timestamp % TicksPerSec # 0
    /\ published[1].content_found = Some(TRUE)
    /\ published[1].num_redirects = 1
    /\ ParseTs(published[1].timestamp) < M.timestamp

\* C15: two records a probe publishes in different cycles carry different timestamps on
\* the wire, whatever the delay (compared while the model's clock still runs).
C15_UniqueTimestamps ==
    (published # None /\ hist.prevStamp # None /\ M.timestamp < MaxNow) =>
        published[1].timestamp # hist.prevStamp[1]

\* C16 as stated: in a published record content_found is non-null exactly when a pattern
\* was supplied and the HTTP phase ran and produced a body.
C16_FoundIffPatternGiven ==
    published # None =>
        (published[1].content_found # None
            <=> (args.search_in_content # None /\ hist.lastStatus # None))

\* C16, amended: content_found is non-null exactly when a non-empty pattern was supplied
\* and the HTTP phase ran and produced a body; it is null when TCP failed.
C16_FoundIffPatternNonEmpty ==
    published # None =>
        /\ published[1].content_found # None
              <=> (args.search_in_content \notin {None, Some(<<>>)} /\ hist.lastStatus # None)
        /\ published[1].tcp_exception # None => published[1].content_found = None

C16_Witness ==
    /\ published # None
    /\ args.search_in_content = Some(PatABC)
    /\ published[1].content_found = Some(FALSE)
    /\ published[1].final_response_code = Some(404)

(***************************************************************************)
(* Termination of time_http and the order of a cycle                       *)
(***************************************************************************)

\* C18: time_http stops after a bounded number of requests: every pass of its loop
\* issues one request, no pass goes by without one, and no more than 21 are issued.
C18_BoundedRequests ==
    [][/\ requests' <= MaxRedirects + 1
       /\ (pc = "http_request" /\ pc' # pc) => requests' = requests + 1
       /\ (pc = "http_guard" /\ pc' # pc) =>
              (pc' \in {"http_request", "crashed"} /\ requests' = requests)
       /\ (pc = "http_request" /\ pc' = "http_guard") => M.num_redirects' = requests']_vars

\* time_http returned on the last request the guard lets through
C18_Witness ==
    /\ pc = "match"
    /\ requests = MaxRedirects + 1
    /\ M.num_redirects = MaxRedirects

\* C19: a cycle that was started has published its Metric when it is over, that is when
\* the loop is back at its head or the process has stopped.
C19_CyclePublishes ==
    (metric # None /\ pc \in {"cycle", "exited", "crashed"}) => published # None

(***************************************************************************)
(* The commit cadence in messages                                          *)
(***************************************************************************)

\* C20: at no point have more than 16 messages been inserted since the last commit or
\* since the writer started.
C20_AtMostSixteen == sinceCommit <= CommitEvery


====
